---- MODULE Spec2Model ----
(***************************************************************************)
(* A model of src/src/mutex.c: createMutex, lockMutex, unlockMutex and     *)
(* destroyMutex called by several threads on one handle.                   *)
(*                                                                         *)
(* One handle is modelled: its backing memory (mem), the OS object in it   *)
(* (minit, mtype, owner) and the attribute object createMutex uses         *)
(* (attrMem, attrInit).  Every thread is either idle or inside one call;   *)
(* a call is split at each access to the shared lock, so the steps of      *)
(* different threads interleave as the OS primitive allows.  The local     *)
(* work of a call (null check, printError, return) is part of the step     *)
(* that precedes it.                                                       *)
(*                                                                         *)
(* diag[t] and calls[t] are the diagnostics printed and the OS primitives  *)
(* invoked by thread t's current (or, when idle, last) call.               *)
(***************************************************************************)
EXTENDS Naturals, Sequences, FiniteSets, TLC

\* Number of threads sharing the handle.
NumThreads == 2
\* Lock/unlock rounds each thread performs in the race scenario (RaceSpec).
MaxRounds == 3

Threads == 1..NumThreads
\* The owner field of an unlocked mutex.
NoThread == 0

VARIABLES
    handle,    \* what createMutex returned to the caller: "NULL" or "H"
    mem,       \* the handle's backing memory: "unalloc", "alloc", "freed"
    minit,     \* the OS mutex object: "uninit", "init", "destroyed"
    mtype,     \* the type pthread_mutex_init took from the attribute
    owner,     \* the thread that holds the OS lock, or NoThread
    attrMem,   \* the attribute object's memory
    attrInit,  \* the attribute object: "uninit", "init", "destroyed"
    pc,        \* per thread: "idle" or the step of the call it is in
    cur,       \* per thread: the current/last call [op, arg, stale]
    ret,       \* per thread: "none" while in a call, else "ok" (0 / non-NULL) or "fail" (1 / NULL)
    diag,      \* per thread: the printError calls of the current/last call
    calls,     \* per thread: the OS primitives invoked by the current/last call
    holds,     \* per thread: its lockMutex returned 0 and no unlockMutex of its own returned 0 since
    crashed,   \* the process was terminated by undefined behaviour
    todo       \* per thread: lock/unlock rounds left (race scenario only)

vars == <<handle, mem, minit, mtype, owner, attrMem, attrInit, pc, cur, ret,
          diag, calls, holds, crashed, todo>>

shared == <<handle, mem, minit, mtype, owner, attrMem, attrInit>>

----------------------------------------------------------------------------
(* Helpers *)

\* printError(code, __FILE__, __PRETTY_FUNCTION__, msg)
printError(code, fn, msg) == [code |-> code, fn |-> fn, msg |-> msg]

\* One invocation of an OS primitive: its name, its result, the lock's owner
\* just before it and the state of the object it was given.
OsCall(fn, rc, pre, obj) == [fn |-> fn, rc |-> rc, pre |-> pre, obj |-> obj]

\* The handle points to allocated memory holding an initialized mutex.
Valid == mem = "alloc" /\ minit = "init"

ObjState ==
    IF mem = "freed" THEN "freed"
    ELSE IF minit = "destroyed" THEN "destroyed"
    ELSE IF minit = "init" THEN "valid"
    ELSE "uninit"

\* NULL == mutex
\* (variant: the null check inverted)
IsNullMutant(a) == a # "NULL"
IsNull(a) == a = "NULL"

\* pthread_mutexattr_settype(attribute, PTHREAD_MUTEX_ERRORCHECK)
\* (variant: the attribute left at the default type)
AttributeTypeMutant == "NORMAL"
AttributeType == "ERRORCHECK"

\* An OS primitive given a destroyed or freed mutex: undefined behaviour.
\* It may report success, report an error, or terminate the process.
Undefined ==
    {[rc |-> r, owner |-> owner, minit |-> minit, crash |-> FALSE] : r \in {"OK", "EINVAL"}}
    \cup {[rc |-> "SIGSEGV", owner |-> owner, minit |-> minit, crash |-> TRUE]}

Outcome(rc, o, mi) == [rc |-> rc, owner |-> o, minit |-> mi, crash |-> FALSE]

----------------------------------------------------------------------------
(* The OS primitive, as the calls of mutex.c use it.  Each operator is the *)
(* set of outcomes of one invocation by thread t in the current state; an  *)
(* empty set means the caller blocks.                                      *)

\* pthread_mutex_lock(mutex)
\* (variant: acquires the lock even while another thread owns it)
pthread_mutex_lock_Steal(t) ==
    IF ~Valid THEN Undefined
    ELSE IF owner = t /\ mtype = "ERRORCHECK" THEN {Outcome("EDEADLK", owner, minit)}
    ELSE {Outcome("OK", t, minit)}
pthread_mutex_lock(t) ==
    IF ~Valid THEN Undefined
    ELSE IF owner = NoThread THEN {Outcome("OK", t, minit)}
    ELSE IF owner = t /\ mtype = "ERRORCHECK" THEN {Outcome("EDEADLK", owner, minit)}
    ELSE {}

\* pthread_mutex_unlock(mutex)
\* (variant: no owner check, as for a mutex without error checking)
pthread_mutex_unlock_NoCheck(t) ==
    IF ~Valid THEN Undefined
    ELSE {Outcome("OK", NoThread, minit)}
\* (variant: reports success without releasing the lock)
pthread_mutex_unlock_NoRelease(t) ==
    IF ~Valid THEN Undefined
    ELSE IF owner = t THEN {Outcome("OK", owner, minit)}
    ELSE {Outcome("EPERM", owner, minit)}
pthread_mutex_unlock(t) ==
    IF ~Valid THEN Undefined
    ELSE IF owner = t THEN {Outcome("OK", NoThread, minit)}
    ELSE IF mtype = "ERRORCHECK" THEN {Outcome("EPERM", owner, minit)}
    ELSE Undefined \cup {Outcome("OK", NoThread, minit)}

\* pthread_mutex_trylock(mutex)
\* (variant: waits for the lock as pthread_mutex_lock does)
pthread_mutex_trylock_Waits(t) ==
    IF ~Valid THEN Undefined
    ELSE IF owner = NoThread THEN {Outcome("OK", t, minit)}
    ELSE IF owner = t THEN {Outcome("EBUSY", owner, minit)}
    ELSE {}
pthread_mutex_trylock(t) ==
    IF ~Valid THEN Undefined
    ELSE IF owner = NoThread THEN {Outcome("OK", t, minit)}
    ELSE {Outcome("EBUSY", owner, minit)}

\* pthread_mutex_destroy(mutex).  Destroying a locked mutex is undefined:
\* the implementation may refuse with EBUSY or destroy the object.  A
\* destroyed object is no lock any more: it has no owner.
pthread_mutex_destroy(t) ==
    IF ~Valid THEN Undefined
    ELSE IF owner = NoThread THEN {Outcome("OK", NoThread, "destroyed")}
    ELSE {Outcome("EBUSY", owner, minit), Outcome("OK", NoThread, "destroyed")}

----------------------------------------------------------------------------
(* The functions of mutex.c on a handle.  Each operator is the set of      *)
(* results of the function's next step for thread t with argument a:       *)
(* the value returned ("none": not returned), the new state of the lock,   *)
(* and the diagnostics and OS calls the step added.                        *)

Result(r, o, d, c) ==
    [ret |-> r, owner |-> o.owner, minit |-> o.minit, crash |-> o.crash, diag |-> d, calls |-> c]

\* A failed null check: nothing but the diagnostic happens.
NullResult(fn, msg) ==
    [ret |-> "fail", owner |-> owner, minit |-> minit, crash |-> FALSE,
     diag |-> <<printError("0", fn, msg)>>, calls |-> <<>>]

\* A null pointer that reaches an OS primitive is dereferenced.
NullDeref(fn) ==
    [ret |-> "none", owner |-> owner, minit |-> minit, crash |-> TRUE,
     diag |-> <<>>, calls |-> <<OsCall(fn, "SIGSEGV", owner, "null")>>]

\* The step of a function that invokes OS primitive fn (outcomes outs) and
\* prints msg and returns 1 when it fails.
\* (variant: the failure is returned without a diagnostic)
OsResults_Silent(caller, fn, outs, msg) ==
    {Result(IF o.crash THEN "none" ELSE IF o.rc = "OK" THEN "ok" ELSE "fail",
            o, <<>>, <<OsCall(fn, o.rc, owner, ObjState)>>) : o \in outs}
OsResults(caller, fn, outs, msg) ==
    {Result(IF o.crash THEN "none" ELSE IF o.rc = "OK" THEN "ok" ELSE "fail",
            o,
            IF ~o.crash /\ o.rc # "OK" THEN <<printError(o.rc, caller, msg)>> ELSE <<>>,
            <<OsCall(fn, o.rc, owner, ObjState)>>) : o \in outs}

\* int lockMutex(pthread_mutex_t *mutex)
\* (variant: the null check left out)
lockMutex_NoNullCheck(t, a) ==
    IF a = "NULL" THEN {NullDeref("pthread_mutex_lock")}
    ELSE OsResults("lockMutex", "pthread_mutex_lock", pthread_mutex_lock(t),
                   "Could not lock mutex.")
lockMutex(t, a) ==
    IF IsNull(a) THEN {NullResult("lockMutex", "Could not lock mutex as it is null.")}
    ELSE IF a = "NULL" THEN {NullDeref("pthread_mutex_lock")}
    ELSE OsResults("lockMutex", "pthread_mutex_lock", pthread_mutex_lock(t),
                   "Could not lock mutex.")

\* int unlockMutex(pthread_mutex_t *mutex)
\* (variant: the test of pthread_mutex_unlock's result inverted)
unlockMutex_Inverted(t, a) ==
    IF IsNull(a) THEN {NullResult("unlockMutex", "Could not unlock mutex as it is null.")}
    ELSE IF a = "NULL" THEN {NullDeref("pthread_mutex_unlock")}
    ELSE {[r EXCEPT !.ret = IF r.ret = "ok" THEN "fail" ELSE IF r.ret = "fail" THEN "ok" ELSE r.ret] :
            r \in OsResults("unlockMutex", "pthread_mutex_unlock", pthread_mutex_unlock(t),
                            "Could not unlock mutex.")}
unlockMutex(t, a) ==
    IF IsNull(a) THEN {NullResult("unlockMutex", "Could not unlock mutex as it is null.")}
    ELSE IF a = "NULL" THEN {NullDeref("pthread_mutex_unlock")}
    ELSE OsResults("unlockMutex", "pthread_mutex_unlock", pthread_mutex_unlock(t),
                   "Could not unlock mutex.")

\* destroyMutex, from its entry to the return of pthread_mutex_trylock:
\* the null check and the probe.  "ok" here means: go on to release the probe.
\* (variant: the probe left out)
destroyProbe_NoProbe(t, a) ==
    IF IsNull(a) THEN {NullResult("destroyMutex", "Could not destroy mutex as it is null.")}
    ELSE IF a = "NULL" THEN {NullDeref("pthread_mutex_trylock")}
    ELSE {Result("ok", Outcome("OK", owner, minit), <<>>, <<>>)}
destroyProbe(t, a) ==
    IF IsNull(a) THEN {NullResult("destroyMutex", "Could not destroy mutex as it is null.")}
    ELSE IF a = "NULL" THEN {NullDeref("pthread_mutex_trylock")}
    ELSE OsResults("destroyMutex", "pthread_mutex_trylock", pthread_mutex_trylock(t),
                   "Could not destroy mutex as it is locked.")

\* destroyMutex: if (0 != unlockMutex(mutex)) { printError(0, ..., NULL); return 1; }
\* (variant: the probe's acquisition not released)
destroyRelease_Skip(t, a) ==
    {Result("ok", Outcome("OK", owner, minit), <<>>, <<>>)}
destroyRelease(t, a) ==
    {[r EXCEPT !.diag = IF r.ret = "fail"
                        THEN r.diag \o <<printError("0", "destroyMutex", "NULL")>>
                        ELSE r.diag] : r \in unlockMutex(t, a)}

\* destroyMutex: pthread_mutex_destroy(mutex)
\* (variant: a failed pthread_mutex_destroy is attempted a second time)
destroyTeardown_Retry(t, a) ==
    {[r EXCEPT !.calls = IF r.ret = "fail" THEN r.calls \o r.calls ELSE r.calls] :
        r \in OsResults("destroyMutex", "pthread_mutex_destroy", pthread_mutex_destroy(t),
                       "Could not destroy mutex.")}
destroyTeardown(t, a) ==
    OsResults("destroyMutex", "pthread_mutex_destroy", pthread_mutex_destroy(t),
              "Could not destroy mutex.")

\* destroyMutex: free(mutex); return 0.  Freeing freed memory is undefined.
\* (variant: the memory not freed)
destroyFree_Leak(t, a) ==
    {[ret |-> "ok", mem |-> mem, crash |-> FALSE,
      calls |-> <<>>]}
destroyFree(t, a) ==
    {[ret |-> IF c THEN "none" ELSE "ok", mem |-> "freed", crash |-> c,
      calls |-> <<OsCall("free", "OK", owner, ObjState)>>] :
        c \in IF mem = "freed" THEN {FALSE, TRUE} ELSE {FALSE}}

----------------------------------------------------------------------------
(* Construction.  createMutex works on objects no other thread can reach   *)
(* until it returns, so it is one step.  F is the set of stages that fail  *)
(* in this call.                                                           *)

Stages == {"attr_malloc", "attr_init", "attr_settype", "mutex_malloc", "mutex_init", "attr_destroy"}

\* pthread_mutexattr_t *createMutexAttribute()
\* (variant: the result of pthread_mutexattr_settype not tested)
createMutexAttribute_NoSettypeCheck(F) ==
    IF "attr_malloc" \in F THEN
        [ok |-> FALSE, aMem |-> "unalloc", aInit |-> "uninit", aType |-> "NONE",
         diag |-> <<printError("ENOMEM", "createMutexAttribute", "Could not allocate memory for attribute.")>>,
         calls |-> <<OsCall("malloc", "ENOMEM", NoThread, "attr")>>]
    ELSE IF "attr_init" \in F THEN
        [ok |-> FALSE, aMem |-> "freed", aInit |-> "uninit", aType |-> "NONE",
         diag |-> <<printError("ENOMEM", "createMutexAttribute", "Could not initialize attribute.")>>,
         calls |-> <<OsCall("malloc", "OK", NoThread, "attr"),
                     OsCall("pthread_mutexattr_init", "ENOMEM", NoThread, "attr"),
                     OsCall("free", "OK", NoThread, "attr")>>]
    ELSE
        [ok |-> TRUE, aMem |-> "alloc", aInit |-> "init",
         aType |-> IF "attr_settype" \in F THEN "NORMAL" ELSE AttributeType,
         diag |-> <<>>,
         calls |-> <<OsCall("malloc", "OK", NoThread, "attr"),
                     OsCall("pthread_mutexattr_init", "OK", NoThread, "attr"),
                     OsCall("pthread_mutexattr_settype",
                            IF "attr_settype" \in F THEN "EINVAL" ELSE "OK", NoThread, "attr")>>]
createMutexAttribute(F) ==
    IF "attr_malloc" \in F THEN
        [ok |-> FALSE, aMem |-> "unalloc", aInit |-> "uninit", aType |-> "NONE",
         diag |-> <<printError("ENOMEM", "createMutexAttribute", "Could not allocate memory for attribute.")>>,
         calls |-> <<OsCall("malloc", "ENOMEM", NoThread, "attr")>>]
    ELSE IF "attr_init" \in F THEN
        [ok |-> FALSE, aMem |-> "freed", aInit |-> "uninit", aType |-> "NONE",
         diag |-> <<printError("ENOMEM", "createMutexAttribute", "Could not initialize attribute.")>>,
         calls |-> <<OsCall("malloc", "OK", NoThread, "attr"),
                     OsCall("pthread_mutexattr_init", "ENOMEM", NoThread, "attr"),
                     OsCall("free", "OK", NoThread, "attr")>>]
    ELSE IF "attr_settype" \in F THEN
        [ok |-> FALSE, aMem |-> "freed", aInit |-> "init", aType |-> "NONE",
         diag |-> <<printError("EINVAL", "createMutexAttribute", "Could not set attribute type.")>>,
         calls |-> <<OsCall("malloc", "OK", NoThread, "attr"),
                     OsCall("pthread_mutexattr_init", "OK", NoThread, "attr"),
                     OsCall("pthread_mutexattr_settype", "EINVAL", NoThread, "attr"),
                     OsCall("free", "OK", NoThread, "attr")>>]
    ELSE
        [ok |-> TRUE, aMem |-> "alloc", aInit |-> "init", aType |-> AttributeType,
         diag |-> <<>>,
         calls |-> <<OsCall("malloc", "OK", NoThread, "attr"),
                     OsCall("pthread_mutexattr_init", "OK", NoThread, "attr"),
                     OsCall("pthread_mutexattr_settype", "OK", NoThread, "attr")>>]

\* int destroyMutexAttribute(pthread_mutexattr_t *attribute), attribute non-null
\* (variant: the attribute is torn down but its memory is not freed)
destroyMutexAttribute_NoFree(F) ==
    IF "attr_destroy" \in F THEN
        [ok |-> FALSE, aMem |-> "alloc", aInit |-> "init",
         diag |-> <<printError("EINVAL", "destroyMutexAttribute", "Could not destroy attribute.")>>,
         calls |-> <<OsCall("pthread_mutexattr_destroy", "EINVAL", NoThread, "attr")>>]
    ELSE
        [ok |-> TRUE, aMem |-> "alloc", aInit |-> "destroyed",
         diag |-> <<>>,
         calls |-> <<OsCall("pthread_mutexattr_destroy", "OK", NoThread, "attr")>>]
destroyMutexAttribute(F) ==
    IF "attr_destroy" \in F THEN
        [ok |-> FALSE, aMem |-> "alloc", aInit |-> "init",
         diag |-> <<printError("EINVAL", "destroyMutexAttribute", "Could not destroy attribute.")>>,
         calls |-> <<OsCall("pthread_mutexattr_destroy", "EINVAL", NoThread, "attr")>>]
    ELSE
        [ok |-> TRUE, aMem |-> "freed", aInit |-> "destroyed",
         diag |-> <<>>,
         calls |-> <<OsCall("pthread_mutexattr_destroy", "OK", NoThread, "attr"),
                     OsCall("free", "OK", NoThread, "attr")>>]

\* pthread_mutex_t* createMutex()
createMutex(F) ==
    LET a == createMutexAttribute(F)
        d == destroyMutexAttribute(F)
        dd == IF d.ok THEN d.diag ELSE d.diag \o <<printError("0", "createMutex", "NULL")>>
    IN  IF ~a.ok THEN
            [handle |-> "NULL", mem |-> "unalloc", minit |-> "uninit", mtype |-> "NONE",
             aMem |-> a.aMem, aInit |-> a.aInit,
             diag |-> a.diag \o <<printError("0", "createMutex", "Could not create attribute.")>>,
             calls |-> a.calls]
        ELSE IF "mutex_malloc" \in F THEN
            [handle |-> "NULL", mem |-> "unalloc", minit |-> "uninit", mtype |-> "NONE",
             aMem |-> d.aMem, aInit |-> d.aInit,
             diag |-> <<printError("ENOMEM", "createMutex", "Could not allocate memory for mutex.")>> \o dd,
             calls |-> a.calls \o <<OsCall("malloc", "ENOMEM", NoThread, "mutex")>> \o d.calls]
        ELSE IF "mutex_init" \in F THEN
            [handle |-> "NULL", mem |-> "freed", minit |-> "uninit", mtype |-> "NONE",
             aMem |-> d.aMem, aInit |-> d.aInit,
             diag |-> <<printError("ENOMEM", "createMutex", "Could not initialize mutex.")>> \o dd,
             calls |-> a.calls \o <<OsCall("malloc", "OK", NoThread, "mutex"),
                                    OsCall("pthread_mutex_init", "ENOMEM", NoThread, "mutex")>>
                       \o d.calls \o <<OsCall("free", "OK", NoThread, "mutex")>>]
        ELSE IF ~d.ok THEN
            [handle |-> "NULL", mem |-> "freed", minit |-> "init", mtype |-> a.aType,
             aMem |-> d.aMem, aInit |-> d.aInit,
             diag |-> dd,
             calls |-> a.calls \o <<OsCall("malloc", "OK", NoThread, "mutex"),
                                    OsCall("pthread_mutex_init", "OK", NoThread, "mutex")>>
                       \o d.calls \o <<OsCall("free", "OK", NoThread, "mutex")>>]
        ELSE
            [handle |-> "H", mem |-> "alloc", minit |-> "init", mtype |-> a.aType,
             aMem |-> d.aMem, aInit |-> d.aInit,
             diag |-> <<>>,
             calls |-> a.calls \o <<OsCall("malloc", "OK", NoThread, "mutex"),
                                    OsCall("pthread_mutex_init", "OK", NoThread, "mutex")>>
                       \o d.calls]

----------------------------------------------------------------------------
(* State machine *)

NoCall == [op |-> "none", arg |-> "NULL", stale |-> FALSE]

Init ==
    /\ handle = "NULL"
    /\ mem = "unalloc"
    /\ minit = "uninit"
    /\ mtype = "NONE"
    /\ owner = NoThread
    /\ attrMem = "unalloc"
    /\ attrInit = "uninit"
    /\ pc = [t \in Threads |-> "idle"]
    /\ cur = [t \in Threads |-> NoCall]
    /\ ret = [t \in Threads |-> "none"]
    /\ diag = [t \in Threads |-> <<>>]
    /\ calls = [t \in Threads |-> <<>>]
    /\ holds = [t \in Threads |-> FALSE]
    /\ crashed = FALSE
    /\ todo = [t \in Threads |-> 0]

\* Thread t calls createMutex(); the caller keeps one handle, so it constructs
\* only while it has none.
CreateMutex(t) ==
    /\ ~crashed
    /\ pc[t] = "idle"
    /\ handle = "NULL"
    /\ \A u \in Threads : pc[u] = "idle"
    /\ \E F \in SUBSET Stages :
         LET r == createMutex(F) IN
           /\ handle' = r.handle
           /\ mem' = r.mem
           /\ minit' = r.minit
           /\ mtype' = r.mtype
           /\ owner' = NoThread
           /\ attrMem' = r.aMem
           /\ attrInit' = r.aInit
           /\ cur' = [cur EXCEPT ![t] = [op |-> "createMutex", arg |-> "NULL", stale |-> FALSE]]
           /\ ret' = [ret EXCEPT ![t] = IF r.handle = "NULL" THEN "fail" ELSE "ok"]
           /\ diag' = [diag EXCEPT ![t] = r.diag]
           /\ calls' = [calls EXCEPT ![t] = r.calls]
    /\ UNCHANGED <<pc, holds, crashed, todo>>

\* Thread t enters op with argument a: the handle it was given, or NULL.
Call(t, op, a) ==
    /\ ~crashed
    /\ pc[t] = "idle"
    /\ pc' = [pc EXCEPT ![t] = op]
    /\ cur' = [cur EXCEPT ![t] = [op |-> op, arg |-> a, stale |-> (a = "H" /\ mem = "freed")]]
    /\ ret' = [ret EXCEPT ![t] = "none"]
    /\ diag' = [diag EXCEPT ![t] = <<>>]
    /\ calls' = [calls EXCEPT ![t] = <<>>]
    /\ UNCHANGED <<shared, holds, crashed>>

\* The arguments callers pass: NULL, or the handle createMutex gave them as
\* long as no destroyMutex has freed it (the caller must not reuse it then;
\* StaleSpec below is the caller that does).
Args == {"NULL"} \cup (IF mem = "freed" THEN {} ELSE {handle})

CallLock(t) == \E a \in Args : Call(t, "lockMutex", a) /\ UNCHANGED todo
CallUnlock(t) == \E a \in Args : Call(t, "unlockMutex", a) /\ UNCHANGED todo
CallDestroy(t) == \E a \in Args : Call(t, "destroyMutex", a) /\ UNCHANGED todo

\* What a step of thread t's call does to the thread: it returns (next = "idle"),
\* goes on to its next step, or the process dies.
Step(t, r, next) ==
    /\ crashed' = r.crash
    /\ pc' = [pc EXCEPT ![t] = IF r.crash \/ r.ret = "fail" THEN (IF r.crash THEN @ ELSE "idle") ELSE next]
    /\ ret' = [ret EXCEPT ![t] = IF r.crash THEN "none"
                                 ELSE IF r.ret = "fail" THEN "fail"
                                 ELSE IF next = "idle" THEN "ok" ELSE "none"]
    /\ calls' = [calls EXCEPT ![t] = @ \o r.calls]

\* lockMutex: the null check, pthread_mutex_lock (which may block) and the return.
LockMutex(t) ==
    /\ ~crashed
    /\ pc[t] = "lockMutex"
    /\ \E r \in lockMutex(t, cur[t].arg) :
         /\ Step(t, r, "idle")
         /\ owner' = r.owner
         /\ minit' = r.minit
         /\ diag' = [diag EXCEPT ![t] = @ \o r.diag]
         /\ holds' = [holds EXCEPT ![t] = IF r.ret = "ok" THEN TRUE ELSE @]
    /\ UNCHANGED <<handle, mem, mtype, attrMem, attrInit, cur, todo>>

\* unlockMutex: the null check, pthread_mutex_unlock and the return.
UnlockMutex(t) ==
    /\ ~crashed
    /\ pc[t] = "unlockMutex"
    /\ \E r \in unlockMutex(t, cur[t].arg) :
         /\ Step(t, r, "idle")
         /\ owner' = r.owner
         /\ minit' = r.minit
         /\ diag' = [diag EXCEPT ![t] = @ \o r.diag]
         /\ holds' = [holds EXCEPT ![t] = IF r.ret = "ok" THEN FALSE ELSE @]
    /\ UNCHANGED <<handle, mem, mtype, attrMem, attrInit, cur, todo>>

\* destroyMutex: the null check and the trylock probe.
DestroyProbe(t) ==
    /\ ~crashed
    /\ pc[t] = "destroyMutex"
    /\ \E r \in destroyProbe(t, cur[t].arg) :
         /\ Step(t, r, "destroy_unlock")
         /\ owner' = r.owner
         /\ minit' = r.minit
         /\ diag' = [diag EXCEPT ![t] = @ \o r.diag]
    /\ UNCHANGED <<handle, mem, mtype, attrMem, attrInit, cur, holds, todo>>

\* destroyMutex: the release of the probe's acquisition.
DestroyRelease(t) ==
    /\ ~crashed
    /\ pc[t] = "destroy_unlock"
    /\ \E r \in destroyRelease(t, cur[t].arg) :
         /\ Step(t, r, "destroy_teardown")
         /\ owner' = r.owner
         /\ minit' = r.minit
         /\ diag' = [diag EXCEPT ![t] = @ \o r.diag]
    /\ UNCHANGED <<handle, mem, mtype, attrMem, attrInit, cur, holds, todo>>

\* destroyMutex: pthread_mutex_destroy.
DestroyTeardown(t) ==
    /\ ~crashed
    /\ pc[t] = "destroy_teardown"
    /\ \E r \in destroyTeardown(t, cur[t].arg) :
         /\ Step(t, r, "destroy_free")
         /\ owner' = r.owner
         /\ minit' = r.minit
         /\ diag' = [diag EXCEPT ![t] = @ \o r.diag]
    /\ UNCHANGED <<handle, mem, mtype, attrMem, attrInit, cur, holds, todo>>

\* destroyMutex: free(mutex) and return 0.
DestroyFree(t) ==
    /\ ~crashed
    /\ pc[t] = "destroy_free"
    /\ \E r \in destroyFree(t, cur[t].arg) :
         /\ Step(t, r, "idle")
         /\ mem' = r.mem
    /\ UNCHANGED <<handle, minit, mtype, owner, attrMem, attrInit, cur, diag, holds, todo>>

Next ==
    \E t \in Threads :
        \/ CreateMutex(t)
        \/ CallLock(t)
        \/ CallUnlock(t)
        \/ CallDestroy(t)
        \/ LockMutex(t)
        \/ UnlockMutex(t)
        \/ DestroyProbe(t)
        \/ DestroyRelease(t)
        \/ DestroyTeardown(t)
        \/ DestroyFree(t)

Spec == Init /\ [][Next]_vars

----------------------------------------------------------------------------
(* The race scenario: the handle has been constructed (by thread 1) and    *)
(* every thread runs  lockMutex(h); unlockMutex(h);  MaxRounds times.      *)

AfterCreate ==
    LET r == createMutex({}) IN
    /\ handle = r.handle
    /\ mem = r.mem
    /\ minit = r.minit
    /\ mtype = r.mtype
    /\ owner = NoThread
    /\ attrMem = r.aMem
    /\ attrInit = r.aInit
    /\ pc = [t \in Threads |-> "idle"]
    /\ cur = [t \in Threads |-> IF t = 1 THEN [op |-> "createMutex", arg |-> "NULL", stale |-> FALSE] ELSE NoCall]
    /\ ret = [t \in Threads |-> IF t = 1 THEN "ok" ELSE "none"]
    /\ diag = [t \in Threads |-> <<>>]
    /\ calls = [t \in Threads |-> IF t = 1 THEN r.calls ELSE <<>>]
    /\ holds = [t \in Threads |-> FALSE]
    /\ crashed = FALSE

RaceInit == AfterCreate /\ todo = [t \in Threads |-> MaxRounds]

RaceLock(t) ==
    /\ todo[t] > 0
    /\ ~holds[t]
    /\ Call(t, "lockMutex", handle)
    /\ todo' = [todo EXCEPT ![t] = @ - 1]

RaceUnlock(t) ==
    /\ holds[t]
    /\ Call(t, "unlockMutex", handle)
    /\ UNCHANGED todo

RaceNext ==
    \E t \in Threads :
        \/ RaceLock(t)
        \/ RaceUnlock(t)
        \/ LockMutex(t)
        \/ UnlockMutex(t)

\* Every thread that can run is eventually run, and a thread that holds the
\* lock goes on to release it.
RaceFair ==
    \A t \in Threads :
        /\ WF_vars(RaceLock(t))
        /\ WF_vars(RaceUnlock(t))
        /\ WF_vars(LockMutex(t))
        /\ WF_vars(UnlockMutex(t))

RaceSpec == RaceInit /\ [][RaceNext]_vars /\ RaceFair

----------------------------------------------------------------------------
(* The caller that keeps using the handle after destroying it: thread 1    *)
(* has constructed the handle and destroyMutex has returned 0 to it; the   *)
(* threads go on calling the three operations with the dangling handle.    *)

AfterDestroy ==
    LET r == createMutex({}) IN
    /\ handle = r.handle
    /\ mem = "freed"
    /\ minit = "destroyed"
    /\ mtype = r.mtype
    /\ owner = NoThread
    /\ attrMem = r.aMem
    /\ attrInit = r.aInit
    /\ pc = [t \in Threads |-> "idle"]
    /\ cur = [t \in Threads |-> IF t = 1 THEN [op |-> "destroyMutex", arg |-> "H", stale |-> FALSE] ELSE NoCall]
    /\ ret = [t \in Threads |-> IF t = 1 THEN "ok" ELSE "none"]
    /\ diag = [t \in Threads |-> <<>>]
    /\ calls = [t \in Threads |->
                  IF t = 1
                  THEN <<OsCall("pthread_mutex_trylock", "OK", NoThread, "valid"),
                         OsCall("pthread_mutex_unlock", "OK", 1, "valid"),
                         OsCall("pthread_mutex_destroy", "OK", NoThread, "valid"),
                         OsCall("free", "OK", NoThread, "destroyed")>>
                  ELSE <<>>]
    /\ holds = [t \in Threads |-> FALSE]
    /\ crashed = FALSE

StaleInit == AfterDestroy /\ todo = [t \in Threads |-> 0]

ReuseLock(t) == Call(t, "lockMutex", handle) /\ UNCHANGED todo
ReuseUnlock(t) == Call(t, "unlockMutex", handle) /\ UNCHANGED todo
ReuseDestroy(t) == Call(t, "destroyMutex", handle) /\ UNCHANGED todo

StaleNext ==
    \E t \in Threads :
        \/ ReuseLock(t)
        \/ ReuseUnlock(t)
        \/ ReuseDestroy(t)
        \/ LockMutex(t)
        \/ UnlockMutex(t)
        \/ DestroyProbe(t)
        \/ DestroyRelease(t)
        \/ DestroyTeardown(t)
        \/ DestroyFree(t)

StaleSpec == StaleInit /\ [][StaleNext]_vars

----------------------------------------------------------------------------
(* Vocabulary of the properties *)

\* Thread t's last call was op and it has returned.
Returned(t, op) == pc[t] = "idle" /\ cur[t].op = op /\ ret[t] # "none"

\* The threads whose lockMutex returned 0 with no unlockMutex of theirs returning 0 since.
Holders == {t \in Threads : holds[t]}

\* Thread t takes a step: it enters a call, moves on or returns, or dies in an OS call.
Steps(t) == pc'[t] # pc[t] \/ calls'[t] # calls[t]

\* The states the two scenarios start from are states of Spec: TLC finds
\* both of these violated under Spec.
ReachesAfterCreate == ~AfterCreate
ReachesAfterDestroy == ~AfterDestroy

\* Every OS primitive thread t's call invoked was given the initialized,
\* allocated mutex (and free the destroyed one): no undefined behaviour in it.
Lawful(t) ==
    \A i \in DOMAIN calls[t] :
        calls[t][i].obj = (IF calls[t][i].fn = "free" THEN "destroyed" ELSE "valid")

\* The names of the OS primitives thread t's call invoked, in order.
CallNames(t) == [i \in DOMAIN calls[t] |-> calls[t][i].fn]

\* The diagnostic of each function's null check.
NullDiagnostic(op) ==
    IF op = "lockMutex" THEN printError("0", op, "Could not lock mutex as it is null.")
    ELSE IF op = "unlockMutex" THEN printError("0", op, "Could not unlock mutex as it is null.")
    ELSE printError("0", op, "Could not destroy mutex as it is null.")

----------------------------------------------------------------------------
(* Properties *)

\* C1: mutual exclusion.  On an initialized handle the lock is unlocked or
\* owned by exactly one thread, and the threads whose lockMutex returned 0
\* without a successful unlockMutex of their own since are at most one, the
\* owner: two threads never both hold it.
C1_MutualExclusion ==
    Valid =>
        /\ owner \in Threads \cup {NoThread}
        /\ Cardinality(Holders) <= 1
        /\ \A t \in Holders : owner = t

\* A thread holds the lock while another is inside lockMutex on the same handle.
C1_Witness ==
    \E t, u \in Threads :
        /\ t # u
        /\ Valid
        /\ holds[t] /\ owner = t
        /\ pc[u] = "lockMutex" /\ cur[u].arg = "H"

\* C2: the race (RaceSpec).  At most one thread holds the handle at a time; a
\* thread inside lockMutex while another thread owns the lock cannot return
\* (it stays blocked until the owner's unlockMutex); and, under fair
\* scheduling, every thread that entered lockMutex eventually returns 0.
C2_Race ==
    /\ [](/\ Cardinality(Holders) <= 1
          /\ \A t \in Threads :
                (pc[t] = "lockMutex" /\ owner \notin {NoThread, t}) => ~ENABLED LockMutex(t))
    /\ \A t \in Threads :
          (pc[t] = "lockMutex") ~> (Returned(t, "lockMutex") /\ ret[t] = "ok")

\* A thread released the lock and another, which raced for it, now holds it.
C2_Witness ==
    \E t, u \in Threads :
        /\ t # u
        /\ Returned(t, "unlockMutex") /\ ret[t] = "ok"
        /\ Returned(u, "lockMutex") /\ ret[u] = "ok" /\ owner = u
        /\ todo[t] = todo[u]

\* C3: destroyMutex never invokes pthread_mutex_destroy on the handle, nor
\* frees it, while a thread holds the lock.
C3_NoTeardownWhileHeld ==
    /\ \A t \in Threads : \A i \in DOMAIN calls[t] :
          (calls[t][i].fn = "pthread_mutex_destroy" /\ calls[t][i].obj = "valid")
              => calls[t][i].pre = NoThread
    /\ mem = "freed" => \A t \in Threads : ~(holds[t] /\ pc[t] = "idle")

\* C4: lockMutex by the thread that already holds the handle does not block
\* (its step is enabled), returns 1 with the OS error EDEADLK, and leaves the
\* handle locked and owned by that thread.
C4_SelfRelockFails ==
    \A t \in Threads :
        /\ (Valid /\ pc[t] = "lockMutex" /\ cur[t].arg = "H" /\ owner = t)
              => ENABLED LockMutex(t)
        /\ (/\ pc[t] = "idle" /\ cur[t].op = "lockMutex"
            /\ calls[t] # <<>>
            /\ calls[t][1].obj = "valid" /\ calls[t][1].pre = t)
              => /\ ret[t] = "fail"
                 /\ calls[t][1].rc = "EDEADLK"
                 /\ diag[t] = <<printError("EDEADLK", "lockMutex", "Could not lock mutex.")>>
                 /\ Valid => (owner = t /\ holds[t])

\* A thread's second lockMutex has failed with EDEADLK and it still owns the lock.
C4_Witness ==
    \E t \in Threads :
        /\ Valid /\ owner = t /\ holds[t]
        /\ Returned(t, "lockMutex") /\ ret[t] = "fail"
        /\ calls[t] = <<OsCall("pthread_mutex_lock", "EDEADLK", t, "valid")>>

\* C5: a step of unlockMutex on an initialized handle the calling thread does
\* not own returns 1 (reporting EPERM) and changes neither the lock nor who
\* holds it.
C5_UnlockNotOwner ==
    [][\A t \in Threads :
         (Valid /\ pc[t] = "unlockMutex" /\ cur[t].arg = "H" /\ owner # t /\ Steps(t))
            => /\ pc'[t] = "idle" /\ ret'[t] = "fail"
               /\ diag'[t] = <<printError("EPERM", "unlockMutex", "Could not unlock mutex.")>>
               /\ owner' = owner /\ holds' = holds
               /\ mem' = mem /\ minit' = minit]_vars

\* unlockMutex has failed on a lock that another thread holds, and that thread holds it still.
C5_Witness ==
    \E t, u \in Threads :
        /\ t # u /\ Valid /\ owner = u /\ holds[u]
        /\ Returned(t, "unlockMutex") /\ ret[t] = "fail"
        /\ calls[t] = <<OsCall("pthread_mutex_unlock", "EPERM", u, "valid")>>

\* C6: the probe of destroyMutex on an initialized handle that is locked (by
\* anyone) ends the call with 1, reporting "still locked", and leaves the
\* handle as it was: allocated, initialized, same owner and holders.  And the
\* handle stays destructible: a destroyMutex on an initialized handle fails
\* only because the lock was held when it looked (EBUSY), so once the owner
\* has unlocked, a destroyMutex that finds the lock free succeeds.
C6_DestroyLockedRefused ==
    /\ [][\A t \in Threads :
            (Valid /\ pc[t] = "destroyMutex" /\ cur[t].arg = "H" /\ owner # NoThread /\ Steps(t))
               => /\ pc'[t] = "idle" /\ ret'[t] = "fail"
                  /\ diag'[t] = <<printError("EBUSY", "destroyMutex", "Could not destroy mutex as it is locked.")>>
                  /\ owner' = owner /\ holds' = holds
                  /\ mem' = mem /\ minit' = minit]_vars
    /\ [](\A t \in Threads :
            (Returned(t, "destroyMutex") /\ cur[t].arg = "H" /\ Lawful(t) /\ ret[t] = "fail")
               => /\ calls[t][Len(calls[t])].rc = "EBUSY"
                  /\ calls[t][Len(calls[t])].pre # NoThread)

\* destroyMutex was refused to one thread because another owned the lock; the
\* owner has since unlocked, and its own destroyMutex has succeeded.
C6_Witness ==
    \E t, u \in Threads :
        /\ t # u
        /\ Returned(t, "destroyMutex") /\ ret[t] = "fail"
        /\ calls[t] = <<OsCall("pthread_mutex_trylock", "EBUSY", u, "valid")>>
        /\ Returned(u, "destroyMutex") /\ ret[u] = "ok" /\ Lawful(u)
        /\ mem = "freed"

\* C7: on an initialized handle, lockMutex by a thread that does not hold it
\* returns 0 whenever it returns, making the thread the owner, and the
\* unlockMutex of the holder returns 0 and leaves the handle unlocked with no
\* owner.
C7_LockThenUnlock ==
    [][\A t \in Threads :
         (Valid /\ cur[t].arg = "H" /\ Steps(t))
            => /\ (pc[t] = "lockMutex" /\ ~holds[t])
                     => (pc'[t] = "idle" /\ ret'[t] = "ok" /\ owner' = t /\ holds'[t])
               /\ (pc[t] = "unlockMutex" /\ holds[t])
                     => (pc'[t] = "idle" /\ ret'[t] = "ok" /\ owner' = NoThread /\ ~holds'[t]
                         /\ diag'[t] = <<>>)]_vars

\* A thread's unlockMutex has returned 0 on the lock it held; the handle is unlocked.
C7_Witness ==
    \E t \in Threads :
        /\ Valid /\ owner = NoThread /\ Holders = {}
        /\ Returned(t, "unlockMutex") /\ ret[t] = "ok"
        /\ calls[t] = <<OsCall("pthread_mutex_unlock", "OK", t, "valid")>>

\* C8: a destroyMutex on an initialized handle that finds the lock free (at
\* its probe and at the teardown) returns 0, having probed, released the
\* probe, torn the OS lock down and freed the memory, in that order and
\* nothing after; the handle is then destroyed and freed.  At most one such
\* call succeeds, and the freed handle stays freed and destroyed for good.
C8_DestroyUnlockedOnce ==
    /\ [](\A t \in Threads :
            (/\ Returned(t, "destroyMutex") /\ cur[t].arg = "H" /\ Lawful(t)
             /\ \A i \in DOMAIN calls[t] : calls[t][i].rc # "EBUSY")
               => /\ ret[t] = "ok"
                  /\ diag[t] = <<>>
                  /\ CallNames(t) = <<"pthread_mutex_trylock", "pthread_mutex_unlock",
                                      "pthread_mutex_destroy", "free">>
                  /\ mem = "freed" /\ minit = "destroyed")
    /\ [](Cardinality({t \in Threads :
                         Returned(t, "destroyMutex") /\ ret[t] = "ok" /\ Lawful(t)}) <= 1)
    /\ [][(handle = "H" /\ mem = "freed")
             => (mem' = "freed" /\ minit' = "destroyed" /\ handle' = handle)]_vars

\* destroyMutex has returned 0 on the unlocked handle.
C8_Witness ==
    \E t \in Threads :
        /\ Returned(t, "destroyMutex") /\ ret[t] = "ok" /\ Lawful(t)
        /\ calls[t][1] = OsCall("pthread_mutex_trylock", "OK", NoThread, "valid")
        /\ mem = "freed" /\ minit = "destroyed"

C10_NullHandle ==
    [][\A t \in Threads :
         (pc[t] \in {"lockMutex", "unlockMutex", "destroyMutex"} /\ cur[t].arg = "NULL" /\ Steps(t))
            => /\ pc'[t] = "idle" /\ ret'[t] = "fail"
               /\ diag'[t] = <<NullDiagnostic(cur[t].op)>>
               /\ calls'[t] = <<>>
               /\ shared' = shared /\ holds' = holds /\ crashed' = crashed]_vars

\* All three operations have failed on a null handle while the real handle is locked.
C10_Witness ==
    \E t, u \in Threads :
        /\ t # u /\ Valid /\ owner = u /\ holds[u]
        /\ cur[u].arg = "NULL" /\ Returned(u, "unlockMutex") /\ ret[u] = "fail"
        /\ cur[t].arg = "NULL" /\ Returned(t, "destroyMutex") /\ ret[t] = "fail"
        /\ diag[t] = <<NullDiagnostic("destroyMutex")>> /\ calls[t] = <<>>

\* Thread t's call of createMutex takes place in this step.
CreateStep(t) ==
    /\ pc[t] = "idle" /\ pc'[t] = "idle"
    /\ cur'[t].op = "createMutex"
    /\ <<cur[t], ret[t], diag[t], calls[t]>> # <<cur'[t], ret'[t], diag'[t], calls'[t]>>

\* C11: a createMutex that returns a handle returns it fully constructed:
\* allocated, initialized with the error-checking type, unlocked with no owner
\* and no holder, its attribute object torn down and freed; a createMutex that
\* fails returns NULL and gives the caller no handle.  A handle the caller has
\* is never one whose construction stopped half way.
C11_CreateAllOrNothing ==
    /\ [][\A t \in Threads :
            CreateStep(t) =>
               IF ret'[t] = "ok"
               THEN /\ handle' = "H"
                    /\ mem' = "alloc" /\ minit' = "init" /\ mtype' = "ERRORCHECK"
                    /\ owner' = NoThread /\ \A u \in Threads : ~holds'[u]
                    /\ attrInit' = "destroyed" /\ attrMem' = "freed"
                    /\ diag'[t] = <<>>
               ELSE ret'[t] = "fail" /\ handle' = "NULL"]_vars
    /\ [](handle = "H" => (mtype = "ERRORCHECK" /\ mem # "unalloc" /\ minit # "uninit"))

\* createMutex has just returned a handle: initialized, unlocked, nobody in a call.
C11_Witness ==
    \E t \in Threads :
        /\ Returned(t, "createMutex") /\ ret[t] = "ok"
        /\ handle = "H" /\ Valid /\ owner = NoThread /\ mtype = "ERRORCHECK"
        /\ \A u \in Threads : pc[u] = "idle" /\ (u # t => cur[u].op = "none")

\* The calls of the log c that failed.
Failed(c) == {i \in 1..Len(c) : c[i].rc # "OK"}

\* C12: whenever createMutex fails, at whatever stage, nothing it acquired
\* stays allocated when it returns: neither the attribute object's memory nor
\* the handle's memory.
C12_FailureReleasesAll ==
    [][\A t \in Threads :
         (CreateStep(t) /\ ret'[t] = "fail") =>
             (attrMem' # "alloc" /\ mem' # "alloc")]_vars

\* The failures of the log c are allocation failures, and there is one.
AllocationFailureOnly(c) ==
    /\ Failed(c) # {}
    /\ \A i \in Failed(c) : c[i].fn = "malloc"

StageMessage(fn, obj) ==
    IF fn = "malloc" /\ obj = "attr" THEN "Could not allocate memory for attribute."
    ELSE IF fn = "pthread_mutexattr_init" THEN "Could not initialize attribute."
    ELSE IF fn = "pthread_mutexattr_settype" THEN "Could not set attribute type."
    ELSE IF fn = "pthread_mutexattr_destroy" THEN "Could not destroy attribute."
    ELSE IF fn = "malloc" THEN "Could not allocate memory for mutex."
    ELSE IF fn = "pthread_mutex_init" THEN "Could not initialize mutex."
    ELSE IF fn = "pthread_mutex_lock" THEN "Could not lock mutex."
    ELSE IF fn = "pthread_mutex_unlock" THEN "Could not unlock mutex."
    ELSE IF fn = "pthread_mutex_trylock" THEN "Could not destroy mutex as it is locked."
    ELSE "Could not destroy mutex."

\* The OS call e ended the process.
Killed(e) == e.rc = "SIGSEGV"

\* The call e was handed an object already destroyed or freed (free itself is
\* handed the destroyed object in the normal course of destroyMutex).
DeadObject(e) ==
    IF e.fn = "free" THEN e.obj = "freed" ELSE e.obj \in {"destroyed", "freed"}

\* C14: no operation fails silently.  An operation that has returned failure
\* has printed at least one diagnostic; every OS call or allocation that
\* failed inside an operation has its own diagnostic, carrying its error code
\* and the message of its stage (for createMutex: allocation, attribute-init,
\* attribute-configure, lock-init, attribute-teardown); a failed createMutex
\* has also left the handle NULL.  The process ends only where an OS
\* primitive was handed a destroyed or freed object, never on a failure path.
C14_FailureIsReported ==
    /\ \A t \in Threads :
          /\ (pc[t] = "idle" /\ ret[t] = "fail") => diag[t] # <<>>
          /\ \A i \in Failed(calls[t]) :
                \/ Killed(calls[t][i])
                \/ \E j \in 1..Len(diag[t]) :
                      /\ diag[t][j].code = calls[t][i].rc
                      /\ diag[t][j].msg = StageMessage(calls[t][i].fn, calls[t][i].obj)
          /\ \A i \in 1..Len(calls[t]) : Killed(calls[t][i]) => DeadObject(calls[t][i])
    /\ crashed => \E t \in Threads : \E i \in 1..Len(calls[t]) : DeadObject(calls[t][i])

\* Failures of each kind have been reported: a createMutex that failed at the
\* attribute teardown, and a lock operation refused by the OS.
C14_Witness ==
    \E t, u \in Threads :
        /\ Returned(t, "createMutex") /\ ret[t] = "fail"
        /\ \E i \in Failed(calls[t]) : calls[t][i].fn = "pthread_mutexattr_destroy"
        /\ Returned(u, "destroyMutex") /\ ret[u] = "fail"
        /\ \E i \in Failed(calls[u]) : calls[u][i].fn = "pthread_mutex_trylock"

\* Thread t is inside pthread_mutex_lock on the initialized handle, which
\* another thread owns.
Waiting(t) ==
    /\ pc[t] = "lockMutex" /\ cur[t].arg = "H"
    /\ Valid /\ owner \notin {NoThread, t}

\* C15: only lockMutex can block.  While the process runs, the next step of
\* a thread inside unlockMutex or destroyMutex (the probe, the release, the
\* teardown, the free) can always be taken, whatever the other threads have
\* done, and a call makes at most one OS call per step: one for unlockMutex,
\* at most four for destroyMutex.  A lockMutex that cannot proceed is waiting
\* for an initialized lock that another thread owns, and as long as the
\* handle stays initialized its wait ends only by that owner's unlock
\* (unlockMutex, or the release inside destroyMutex) leaving the lock free.
C15_OnlyLockBlocks ==
    /\ [](\A t \in Threads :
            /\ (~crashed /\ pc[t] = "unlockMutex") => ENABLED UnlockMutex(t)
            /\ (~crashed /\ pc[t] = "destroyMutex") => ENABLED DestroyProbe(t)
            /\ (~crashed /\ pc[t] = "destroy_unlock") => ENABLED DestroyRelease(t)
            /\ (~crashed /\ pc[t] = "destroy_teardown") => ENABLED DestroyTeardown(t)
            /\ (~crashed /\ pc[t] = "destroy_free") => ENABLED DestroyFree(t)
            /\ (cur[t].op = "unlockMutex") => Len(calls[t]) <= 1
            /\ (cur[t].op = "destroyMutex") => Len(calls[t]) <= 4
            /\ (~crashed /\ pc[t] = "lockMutex") => (Waiting(t) <=> ~ENABLED LockMutex(t)))
    /\ [][\A t \in Threads :
            (Waiting(t) /\ Valid' /\ owner' # owner) =>
                \E u \in Threads \ {t} :
                    /\ owner = u /\ owner' = NoThread
                    /\ pc[u] \in {"unlockMutex", "destroy_unlock"} /\ pc'[u] # pc[u]
                    /\ calls'[u][Len(calls'[u])].fn = "pthread_mutex_unlock"]_vars

\* A thread waits in lockMutex while the lock's owner, which took it with
\* lockMutex, is inside unlockMutex and about to release it.
C15_Witness ==
    \E t, u \in Threads :
        /\ Waiting(t) /\ owner = u /\ holds[u]
        /\ pc[u] = "unlockMutex" /\ cur[u].arg = "H"

\* The calls by which createMutex gives back what it acquired before a failure.
CleanupCalls == {"pthread_mutexattr_destroy", "free"}

\* C16: every operation is fail-fast and non-retrying.  Within one call no OS
\* primitive is invoked twice on the same object (lockMutex, unlockMutex and
\* destroyMutex have one object, createMutex has the attribute and the
\* mutex).  In lockMutex, unlockMutex and destroyMutex a failed OS call is the
\* last call made and the operation returns failure; in createMutex a failed
\* step is followed only by the release of what was acquired, and the
\* operation returns failure.
C16_FailFastNoRetry ==
    \A t \in Threads :
        LET c == calls[t] IN
        /\ \A i, j \in 1..Len(c) :
              (i < j /\ c[i].fn = c[j].fn) =>
                  (cur[t].op = "createMutex" /\ c[i].obj # c[j].obj)
        /\ \A i \in Failed(c) :
              /\ ret[t] = IF Killed(c[i]) THEN "none" ELSE "fail"
              /\ IF cur[t].op = "createMutex"
                 THEN \A j \in (i+1)..Len(c) : c[j].fn \in CleanupCalls
                 ELSE i = Len(c)
              /\ pc[t] = "idle" \/ Killed(c[i])

\* An OS error has ended a call at once: a destroyMutex whose
\* pthread_mutex_destroy failed has returned failure, with no second attempt
\* and no free.
C16_Witness ==
    \E t \in Threads :
        /\ Returned(t, "destroyMutex") /\ ret[t] = "fail"
        /\ Len(calls[t]) = 3 /\ 3 \in Failed(calls[t])
        /\ calls[t][3].fn = "pthread_mutex_destroy"

\* The OS calls of destroyMutex, in the order of its code.
DestroyOrder ==
    <<"pthread_mutex_trylock", "pthread_mutex_unlock", "pthread_mutex_destroy", "free">>

\* C17: destroyMutex goes probe, release, teardown, free, in that order.  At
\* every moment of a destroyMutex call the OS calls it has made are the first
\* ones of that order; pthread_mutex_destroy is invoked only after the probe
\* succeeded and the calling thread's own pthread_mutex_unlock released it
\* with success, so the calling thread is never the owner of the lock it
\* tears down; free comes only after a successful teardown; and a release
\* that failed is the last OS call of the call, which returns failure.
C17_ProbeReleasedBeforeTeardown ==
    \A t \in Threads :
        cur[t].op = "destroyMutex" =>
            LET c == calls[t] IN
            /\ Len(c) <= Len(DestroyOrder)
            /\ \A i \in 1..Len(c) : c[i].fn = DestroyOrder[i]
            /\ Len(c) >= 2 => (c[1].rc = "OK" /\ (c[2].obj = "valid" => c[2].pre = t))
            /\ Len(c) >= 3 => (c[2].rc = "OK" /\ c[3].pre # t)
            /\ Len(c) >= 4 => c[3].rc = "OK"
            /\ (Len(c) >= 2 /\ c[2].rc # "OK") =>
                  (Len(c) = 2 /\ (ret[t] = "fail" \/ Killed(c[2])) /\ pc[t] \in {"idle", "destroy_unlock"})

\* A destroyMutex is past its teardown and before its free: its probe took
\* the lock, its release gave it back, and the teardown found no owner.
C17_Witness ==
    \E t \in Threads :
        /\ pc[t] = "destroy_free"
        /\ calls[t] = <<OsCall("pthread_mutex_trylock", "OK", NoThread, "valid"),
                        OsCall("pthread_mutex_unlock", "OK", t, "valid"),
                        OsCall("pthread_mutex_destroy", "OK", NoThread, "valid")>>

\* A destroyMutex whose release of the probe failed has returned failure
\* without reaching the teardown.
C17_ReleaseFailed ==
    \E t \in Threads :
        /\ Returned(t, "destroyMutex") /\ ret[t] = "fail"
        /\ Len(calls[t]) = 2 /\ calls[t][1].rc = "OK" /\ calls[t][2].rc # "OK"

\* Thread t takes a step inside its destroyMutex call.
DestroySteps(t) == cur[t].op = "destroyMutex" /\ pc[t] # "idle" /\ Steps(t)

\* C18: destroyMutex frees the handle's memory exactly when it returns 0.  A
\* returned destroyMutex has called free if and only if it returned 0; a step
\* of destroyMutex changes the memory only by the free that ends a successful
\* call; a step that returns failure (null handle, probe refused, release
\* failed, teardown failed) leaves the memory as it was, and, unless it is the
\* failed release of the probe, leaves the lock's owner as it was, the calling
\* thread owning the lock afterwards only if it held it by its own lockMutex.
C18_FreesIffSuccess ==
    /\ [](\A t \in Threads :
            Returned(t, "destroyMutex") =>
                (ret[t] = "ok" <=> \E i \in 1..Len(calls[t]) : calls[t][i].fn = "free"))
    /\ [][\A t \in Threads :
            DestroySteps(t) =>
               /\ mem' # mem => (ret'[t] = "ok" /\ pc'[t] = "idle" /\ mem' = "freed")
               /\ ret'[t] = "ok" => mem' = "freed"
               /\ ret'[t] = "fail" =>
                     /\ mem' = mem /\ minit' = minit /\ handle' = handle
                     /\ pc[t] # "destroy_unlock" =>
                           (owner' = owner /\ (owner' = t => holds[t]))]_vars

\* A destroyMutex has failed at the teardown (the lock was taken by another
\* thread after the probe): the memory is still allocated, the lock intact
\* and owned by that thread.
C18_Witness ==
    \E t \in Threads :
        /\ Returned(t, "destroyMutex") /\ ret[t] = "fail"
        /\ Len(calls[t]) = 3 /\ calls[t][3].rc = "EBUSY"
        /\ calls[t][3].pre = owner /\ owner \notin {NoThread, t}
        /\ mem = "alloc" /\ Valid

\* C19: init and destroy are paired.  Memory that holds an initialized OS
\* object is never freed: the attribute object's memory is freed only when
\* the attribute is uninitialized or torn down by pthread_mutexattr_destroy,
\* the handle's memory only when the mutex is uninitialized or torn down by
\* pthread_mutex_destroy.
C19_InitDestroyPaired ==
    /\ attrMem = "freed" => attrInit # "init"
    /\ mem = "freed" => minit # "init"

\* The OS primitives that work on the lock inside the handle's memory.
LockPrimitives ==
    {"pthread_mutex_lock", "pthread_mutex_trylock", "pthread_mutex_unlock", "pthread_mutex_destroy"}

\* C20: no destruction under a waiter.  While a thread is inside lockMutex
\* on the handle (entered and not yet returned, blocked or not) the handle is
\* neither torn down nor freed, and no OS lock primitive is ever invoked on
\* the handle once its memory has been freed.
C20_NoDestructionUnderWaiter ==
    /\ \A t \in Threads :
          (pc[t] = "lockMutex" /\ cur[t].arg = "H") => Valid
    /\ \A t \in Threads : \A i \in 1..Len(calls[t]) :
          calls[t][i].fn \in LockPrimitives => calls[t][i].obj # "freed"

====
